---- MODULE Spec2Model ----
(***************************************************************************)
(* LS-8 emulator (ls8/cpu.py, ls8/alu.py): the CPU object, the loader's    *)
(* ram_load, and the run loop with its four calls per iteration            *)
(* (process_interupt, execute, interupt_timer, keyboard_poll).             *)
(*                                                                         *)
(* Python values are modelled as records [t, n, d]:                        *)
(*   t = "int"   : the integer n                                           *)
(*   t = "float" : the double nearest n/d (the result of true division)    *)
(*   t = "dict"  : a reference to the one flags dictionary of the CPU      *)
(*   t = "big"   : a number outside the modelled range (run is cut there)  *)
(*   any other t : the Python exception an expression raised               *)
(***************************************************************************)
EXTENDS Integers, Sequences, FiniteSets, TLC

\* ---- bounds of the model ------------------------------------------------
MaxInt == 600          \* |n| and d of every modelled number stay <= MaxInt
MaxSteps == 40         \* run-loop iterations explored
MaxKeys == 1           \* key presses the keyboard delivers in one run

\* ---- module constants of cpu.py ------------------------------------------
interrupt_mask == 5
interrupt_status == 6
stack_pointer == 7
last_key == -12
stack_start == -13
ram_size == 256
NumRegs == 8

\* alu_ext.py: the opcode the ADDI docstring gives (B0); no entry of the
\* dispatch table of CPU.__init__ has it, and the CPU builds ALU, not ALU_EXT
ADDI_opcode == 176

interupts(i) == -8 + i            \* list(range(-8, 0))[i]

\* ---- Python values --------------------------------------------------------
I(n) == [t |-> "int", n |-> n, d |-> 1]
DICT == [t |-> "dict", n |-> 0, d |-> 1]
BIG == [t |-> "big", n |-> 0, d |-> 1]
Err(e) == [t |-> e, n |-> 0, d |-> 1]

IsInt(v) == v.t = "int"
IsFloat(v) == v.t = "float"
IsNum(v) == v.t \in {"int", "float"}
IsVal(v) == v.t \in {"int", "float", "dict"}
IsErr(v) == v.t \notin {"int", "float", "dict", "big"}

Abs(n) == IF n < 0 THEN -n ELSE n

RECURSIVE Gcd(_, _)
Gcd(a, b) == IF b = 0 THEN a ELSE Gcd(b, a % b)

RECURSIVE Pow2(_)
Pow2(k) == IF k = 0 THEN 1 ELSE 2 * Pow2(k - 1)

RECURSIVE IsPow2(_)
IsPow2(d) == IF d = 1 THEN TRUE ELSE IF d % 2 = 1 THEN FALSE ELSE IsPow2(d \div 2)

\* an int result, cut at the modelled range
MkInt(n) == IF Abs(n) > MaxInt THEN BIG ELSE I(n)

\* the float n/d (d # 0), in lowest terms with a positive denominator
MkFloat(n, d) ==
    LET g == Gcd(Abs(n), Abs(d))
        nn == IF d < 0 THEN -(n \div g) ELSE n \div g
        dd == Abs(d) \div g
    IN IF Abs(nn) > MaxInt \/ dd > MaxInt THEN BIG
       ELSE [t |-> "float", n |-> nn, d |-> dd]

\* a double the model holds exactly (small dyadic rational); arithmetic on
\* it is exact, and true division of two such values is correctly rounded
Exact(v) == IsNum(v) /\ IsPow2(v.d)

\* truth value of a Python object (`if x`, `x and y`)
Truthy(v) == IF IsNum(v) THEN v.n # 0 ELSE TRUE   \* the flags dict is never empty

\* ---- the lambdas of alu.py ------------------------------------------------
\* lambda a, b: a + b
PyAdd(a, b) ==
    IF ~IsNum(a) \/ ~IsNum(b) THEN
        IF a.t = "big" \/ b.t = "big" THEN BIG ELSE Err("TypeError")
    ELSE IF IsInt(a) /\ IsInt(b) THEN MkInt(a.n + b.n)
    ELSE IF ~Exact(a) \/ ~Exact(b) THEN BIG
    ELSE MkFloat(a.n * b.d + b.n * a.d, a.d * b.d)

\* lambda a, b: a - b
PySub(a, b) ==
    IF ~IsNum(a) \/ ~IsNum(b) THEN
        IF a.t = "big" \/ b.t = "big" THEN BIG ELSE Err("TypeError")
    ELSE IF IsInt(a) /\ IsInt(b) THEN MkInt(a.n - b.n)
    ELSE IF ~Exact(a) \/ ~Exact(b) THEN BIG
    ELSE MkFloat(a.n * b.d - b.n * a.d, a.d * b.d)

\* lambda a, b: a * b
PyMul(a, b) ==
    IF ~IsNum(a) \/ ~IsNum(b) THEN
        IF a.t = "big" \/ b.t = "big" THEN BIG ELSE Err("TypeError")
    ELSE IF IsInt(a) /\ IsInt(b) THEN MkInt(a.n * b.n)
    ELSE IF ~Exact(a) \/ ~Exact(b) THEN BIG
    ELSE MkFloat(a.n * b.n, a.d * b.d)

\* a / b written to yield 0 for a zero divisor
PyTrueDiv_nocheck(a, b) ==
    IF ~IsNum(a) \/ ~IsNum(b) THEN
        IF a.t = "big" \/ b.t = "big" THEN BIG ELSE Err("TypeError")
    ELSE IF b.n = 0 THEN I(0)
    ELSE IF ~Exact(a) \/ ~Exact(b) THEN BIG
    ELSE MkFloat(a.n * b.d, a.d * b.n)

\* lambda a, b: a / b   (true division: the result is a float)
PyTrueDiv(a, b) ==
    IF ~IsNum(a) \/ ~IsNum(b) THEN
        IF a.t = "big" \/ b.t = "big" THEN BIG ELSE Err("TypeError")
    ELSE IF b.n = 0 THEN Err("ZeroDivisionError")
    ELSE IF ~Exact(a) \/ ~Exact(b) THEN BIG
    ELSE MkFloat(a.n * b.d, a.d * b.n)

\* floor of the rational n/d, d > 0
Floor(n, d) == n \div d

\* lambda a, b: a % b   (the result takes the sign of b)
PyMod(a, b) ==
    IF ~IsNum(a) \/ ~IsNum(b) THEN
        IF a.t = "big" \/ b.t = "big" THEN BIG ELSE Err("TypeError")
    ELSE IF b.n = 0 THEN Err("ZeroDivisionError")
    ELSE IF IsInt(a) /\ IsInt(b) THEN
        IF b.n > 0 THEN I(a.n % b.n) ELSE I(-((-a.n) % (-b.n)))
    ELSE IF ~Exact(a) \/ ~Exact(b) THEN BIG
    ELSE LET qn == a.n * b.d                 \* a / b = qn / qd
             qd == a.d * b.n
             q == IF qd > 0 THEN Floor(qn, qd) ELSE Floor(-qn, -qd)
         IN MkFloat(a.n * b.d - q * b.n * a.d, a.d * b.d)   \* a - q * b

\* lambda a: a + 1 / lambda a: a - 1
PyInc(a) == PyAdd(a, I(1))
PyDec(a) == PySub(a, I(1))

\* bitwise operations on Python ints (infinite two's complement)
RECURSIVE BitAnd(_, _)
BitAnd(a, b) ==
    IF a = 0 \/ b = 0 THEN 0
    ELSE IF a = -1 THEN b
    ELSE IF b = -1 THEN a
    ELSE (a % 2) * (b % 2) + 2 * BitAnd(a \div 2, b \div 2)

BitNot(a) == -a - 1
BitOr(a, b) == BitNot(BitAnd(BitNot(a), BitNot(b)))
BitXor(a, b) == BitAnd(BitOr(a, b), BitNot(BitAnd(a, b)))

BitErr(a, b) == IF a.t = "big" \/ b.t = "big" THEN BIG ELSE Err("TypeError")

\* lambda a, b: a & b / a | b / a ^ b
PyAnd(a, b) == IF IsInt(a) /\ IsInt(b) THEN MkInt(BitAnd(a.n, b.n)) ELSE BitErr(a, b)
PyOr(a, b) == IF IsInt(a) /\ IsInt(b) THEN MkInt(BitOr(a.n, b.n)) ELSE BitErr(a, b)
PyXor(a, b) == IF IsInt(a) /\ IsInt(b) THEN MkInt(BitXor(a.n, b.n)) ELSE BitErr(a, b)

\* lambda a: ~a
PyNot(a) == IF IsInt(a) THEN MkInt(BitNot(a.n)) ELSE BitErr(a, a)

\* lambda a, b: a << b
PyShl(a, b) ==
    IF ~IsInt(a) \/ ~IsInt(b) THEN BitErr(a, b)
    ELSE IF b.n < 0 THEN Err("ValueError")
    ELSE IF a.n = 0 THEN I(0)
    ELSE IF b.n > 12 THEN BIG
    ELSE MkInt(a.n * Pow2(b.n))

\* lambda a, b: a >> b
PyShr(a, b) ==
    IF ~IsInt(a) \/ ~IsInt(b) THEN BitErr(a, b)
    ELSE IF b.n < 0 THEN Err("ValueError")
    ELSE IF b.n > 12 THEN (IF a.n < 0 THEN I(-1) ELSE I(0))
    ELSE I(a.n \div Pow2(b.n))

\* a == b on Python objects (numbers by value, the dict by identity)
PyEq(a, b) ==
    IF IsNum(a) /\ IsNum(b) THEN a.n * b.d = b.n * a.d
    ELSE a.t = b.t

\* a < b on numbers
PyLt(a, b) == a.n * b.d < b.n * a.d

\* ---- the CPU object ---------------------------------------------------------
VARIABLES
    ram,              \* self.ram: 256 cells
    used_ram,         \* self.used_ram
    registers,        \* self.registers: 8 cells
    flags,            \* self.flags: the object the attribute refers to
    fl,               \* contents {'E','L','G'} of the one flags dictionary
    program_counter,  \* self.program_counter
    interupting,      \* self.interupting
    running,          \* local `running` of run()
    loc,              \* where the process is: "load", one of the four calls
                      \* of the run loop, "done" (run returned), "raised"
    exc,              \* the exception that ended the process ("" if none)
    file,             \* lines of the program file not yet loaded
    stdin,            \* characters the keyboard will still deliver
    steps,            \* run-loop iterations started
    pushlog,          \* history: the stack_push calls of the last step
    last,             \* history: the last handler run and what it saw
    prev,             \* history: the handler run before `last`
    isr,              \* history: the last interrupt entry
    calls,            \* history: CALLs not yet returned from
    tampered,         \* history: register 7 was written by other than
                      \* stack_push / stack_pop
    loaded            \* history: the values of the ram_load calls that
                      \* returned, in call order

cpu == <<ram, used_ram, registers, flags, fl, program_counter, interupting>>
hist == <<pushlog, last, prev, isr, calls, tampered, loaded>>
vars == <<ram, used_ram, registers, flags, fl, program_counter, interupting,
          running, loc, exc, file, stdin, steps,
          pushlog, last, prev, isr, calls, tampered, loaded>>

\* the CPU object as one record, threaded through a handler's statements;
\* b is the value the last next_byte / stack_pop returned, ret the handler's
\* return value, exc the exception raised (the rest of the handler is skipped),
\* wrote the registers assigned by `self.registers[r] = ...`
Self == [ram |-> ram, used_ram |-> used_ram, registers |-> registers,
         flags |-> flags, fl |-> fl, pc |-> program_counter,
         interupting |-> interupting, b |-> I(0), ret |-> 1, exc |-> "",
         pushlog |-> <<>>, wrote |-> {}]

Raise(s, e) == [s EXCEPT !.exc = e]

\* statement sequencing: run F on s unless s already raised
Bind(s, F(_)) == IF s.exc # "" THEN s ELSE F(s)

\* list indexing that wraps every integer into the list instead of raising
Index_wrap(v, len) ==
    IF ~IsInt(v) THEN [ok |-> FALSE, i |-> 0, e |-> "TypeError"]
    ELSE [ok |-> TRUE, i |-> v.n % len, e |-> ""]

\* Python list indexing lst[v] for a list of length len: the position, or
\* the exception ("IndexError", "TypeError")
Index(v, len) ==
    IF ~IsInt(v) THEN [ok |-> FALSE, i |-> 0, e |-> "TypeError"]
    ELSE IF v.n < -len \/ v.n >= len THEN [ok |-> FALSE, i |-> 0, e |-> "IndexError"]
    ELSE [ok |-> TRUE, i |-> v.n % len, e |-> ""]

\* self.registers[r] = v
SetReg(s, r, v) ==
    [s EXCEPT !.registers[r] = v, !.wrote = @ \cup {r}]

\* the dispatch table built in CPU.__init__
operations ==
    (0 :> "NOP") @@ (1 :> "HLT") @@ (17 :> "RET") @@ (19 :> "IRET") @@
    (69 :> "PUSH") @@ (70 :> "POP") @@ (71 :> "PRN") @@ (72 :> "PRA") @@
    (80 :> "CALL") @@ (82 :> "INT") @@ (84 :> "JMP") @@ (85 :> "JEQ") @@
    (86 :> "JNE") @@ (87 :> "JGT") @@ (88 :> "JLT") @@ (89 :> "JLE") @@
    (90 :> "JGE") @@ (130 :> "LDI") @@ (131 :> "LD") @@ (132 :> "ST") @@
    (160 :> "ADD") @@ (161 :> "SUB") @@ (162 :> "MUL") @@ (163 :> "DIV") @@
    (164 :> "MOD") @@ (165 :> "INC") @@ (166 :> "DEC") @@ (167 :> "CMP") @@
    (168 :> "AND") @@ (169 :> "NOT") @@ (170 :> "OR") @@ (171 :> "XOR") @@
    (172 :> "SHL") @@ (173 :> "SHR")

\* CPU.next_byte
next_byte(s) ==
    LET pc == IF IsInt(s.pc) THEN I(s.pc.n + 1) ELSE PyAdd(s.pc, I(1))
    IN IF IsErr(pc) THEN Raise(s, pc.t)
       ELSE LET s1 == [s EXCEPT !.pc = pc]
                ix == Index(pc, ram_size)
            IN IF ~ix.ok THEN Raise(s1, ix.e)
               ELSE [s1 EXCEPT !.b = s.ram[ix.i]]

\* stack_push decrementing before it writes
stack_push_predec(s, value) ==
    LET sp == s.registers[stack_pointer]
    IN IF ~IsNum(sp) THEN Raise(s, "TypeError")
       ELSE IF (s.used_ram - ram_size) * sp.d - sp.n < 0 THEN
            LET sp1 == PySub(sp, I(1))
                ix == Index(sp1, ram_size)
            IN IF ~ix.ok THEN Raise(s, ix.e)
               ELSE [s EXCEPT !.ram[ix.i] = value,
                              !.registers[stack_pointer] = sp1]
       ELSE Raise(s, "Stack Overflow")

\* stack_push with the room test off by one (<= 0)
stack_push_le(s, value) ==
    LET sp == s.registers[stack_pointer]
    IN IF ~IsNum(sp) THEN Raise(s, "TypeError")
       ELSE IF (s.used_ram - ram_size) * sp.d - sp.n <= 0 THEN
            LET ix == Index(sp, ram_size)
            IN IF ~ix.ok THEN Raise(s, ix.e)
               ELSE [s EXCEPT !.ram[ix.i] = value,
                              !.registers[stack_pointer] = PySub(sp, I(1))]
       ELSE Raise(s, "Stack Overflow")

\* CPU.stack_push, the code alone
stack_push_code(s, value) ==
    LET sp == s.registers[stack_pointer]
    IN IF ~IsNum(sp) THEN Raise(s, "TypeError")
       \* (self.used_ram - sp) - self.ram_size < 0
       ELSE IF (s.used_ram - ram_size) * sp.d - sp.n < 0 THEN
            LET ix == Index(sp, ram_size)
            IN IF ~ix.ok THEN Raise(s, ix.e)
               ELSE [s EXCEPT !.ram[ix.i] = value,
                              !.registers[stack_pointer] = PySub(sp, I(1))]
       ELSE Raise(s, "Stack Overflow")

\* CPU.stack_push, with the call recorded in the history
stack_push(s, value) ==
    LET t == stack_push_code(s, value)
        sp == s.registers[stack_pointer]
        ix == Index(sp, ram_size)
    IN [t EXCEPT !.pushlog = Append(@,
            [exc |-> t.exc, value |-> value, sp |-> sp,
             sp_after |-> t.registers[stack_pointer],
             used_ram |-> s.used_ram,
             changed |-> {a \in 0..(ram_size - 1) : t.ram[a] # s.ram[a]},
             at |-> IF ix.ok THEN ix.i ELSE -1,
             cell |-> IF ix.ok THEN t.ram[ix.i] ELSE Err(ix.e)])]

\* stack_pop reading before it increments
stack_pop_early(s) ==
    LET sp == s.registers[stack_pointer]
    IN IF ~IsNum(sp) THEN Raise(s, "TypeError")
       ELSE IF PyLt(sp, I(stack_start)) THEN
            LET ix == Index(sp, ram_size)
            IN IF ~ix.ok THEN Raise(s, ix.e)
               ELSE [s EXCEPT !.registers[stack_pointer] = PyAdd(sp, I(1)),
                              !.b = s.ram[ix.i]]
       ELSE Raise(s, "Stack Underflow")

\* stack_pop with the emptiness test off by one (<=)
stack_pop_le(s) ==
    LET sp == s.registers[stack_pointer]
    IN IF ~IsNum(sp) THEN Raise(s, "TypeError")
       ELSE IF ~PyLt(I(stack_start), sp) THEN
            LET sp1 == PyAdd(sp, I(1))
                s1 == [s EXCEPT !.registers[stack_pointer] = sp1]
                ix == Index(sp1, ram_size)
            IN IF ~ix.ok THEN Raise(s1, ix.e)
               ELSE [s1 EXCEPT !.b = s.ram[ix.i]]
       ELSE Raise(s, "Stack Underflow")

\* CPU.stack_pop; the popped value is left in b
stack_pop(s) ==
    LET sp == s.registers[stack_pointer]
    IN IF ~IsNum(sp) THEN Raise(s, "TypeError")
       ELSE IF PyLt(sp, I(stack_start)) THEN
            LET sp1 == PyAdd(sp, I(1))
                s1 == [s EXCEPT !.registers[stack_pointer] = sp1]
                ix == Index(sp1, ram_size)
            IN IF ~ix.ok THEN Raise(s1, ix.e)
               ELSE [s1 EXCEPT !.b = s.ram[ix.i]]
       ELSE Raise(s, "Stack Underflow")

\* registers[operand] for an operand byte b: the list position, or raise
RegIndex(b) == Index(b, NumRegs)

\* ---- opcode handlers of cpu.py ---------------------------------------------
NOP(s) == [s EXCEPT !.ret = 2]

HLT(s) == [s EXCEPT !.ret = 0]

RET(s) ==
    Bind(stack_pop(s), LAMBDA s1 : [s1 EXCEPT !.pc = s1.b])

\* the loop `for i in range(6, -1, -1): self.registers[i] = self.stack_pop()`
RECURSIVE IRET_pop(_, _)
IRET_pop(s, i) ==
    IF i < 0 THEN s
    ELSE Bind(stack_pop(s), LAMBDA s1 : IRET_pop(SetReg(s1, i, s1.b), i - 1))

\* IRET popping six registers (R5..R0) instead of seven
IRET_short(s) ==
    Bind(IRET_pop(s, 5), LAMBDA s1 :
    Bind(stack_pop(s1), LAMBDA s2 :
    Bind(stack_pop([s2 EXCEPT !.flags = s2.b]), LAMBDA s3 :
         [s3 EXCEPT !.pc = s3.b, !.interupting = FALSE])))

IRET(s) ==
    Bind(IRET_pop(s, 6), LAMBDA s1 :
    Bind(stack_pop(s1), LAMBDA s2 :
    Bind(stack_pop([s2 EXCEPT !.flags = s2.b]), LAMBDA s3 :
         [s3 EXCEPT !.pc = s3.b, !.interupting = FALSE])))

\* reg_a = self.next_byte; value = self.registers[reg_a]; then F(state, reg_a)
WithReg(s, F(_, _)) ==
    Bind(next_byte(s), LAMBDA s1 :
        LET ra == RegIndex(s1.b)
        IN IF ~ra.ok THEN Raise(s1, ra.e) ELSE F(s1, ra.i))

PUSH(s) == WithReg(s, LAMBDA s1, r : stack_push(s1, s1.registers[r]))

POP(s) ==
    Bind(next_byte(s), LAMBDA s1 :
    Bind(stack_pop(s1), LAMBDA s2 :
        LET ra == RegIndex(s1.b)
        IN IF ~ra.ok THEN Raise(s2, ra.e) ELSE SetReg(s2, ra.i, s2.b)))

\* PRN printing without reading its operand byte
PRN_peek(s) == s

PRN(s) == WithReg(s, LAMBDA s1, r : s1)

\* print(chr(value), end='')
PRA(s) ==
    WithReg(s, LAMBDA s1, r :
        LET value == s1.registers[r]
        IN IF ~IsInt(value) THEN Raise(s1, "TypeError")
           ELSE IF value.n < 0 THEN Raise(s1, "ValueError")
           ELSE s1)

\* CALL saving the address of its own opcode
CALL_at(s) ==
    WithReg(s, LAMBDA s1, r :
        LET to == s1.registers[r]
        IN Bind(stack_push(s1, s.pc), LAMBDA s2 :
            LET t == PySub(to, I(1))
            IN IF IsErr(t) THEN Raise(s2, t.t) ELSE [s2 EXCEPT !.pc = t]))

CALL(s) ==
    WithReg(s, LAMBDA s1, r :
        LET to == s1.registers[r]
        IN Bind(stack_push(s1, s1.pc), LAMBDA s2 :
            LET t == PySub(to, I(1))
            IN IF IsErr(t) THEN Raise(s2, t.t) ELSE [s2 EXCEPT !.pc = t]))

\* self.registers[interrupt_status] |= 1 << bit
INT(s) ==
    WithReg(s, LAMBDA s1, r :
        LET bit == s1.registers[r]
            sh == PyShl(I(1), bit)
            v == PyOr(s1.registers[interrupt_status], sh)
        IN IF IsErr(sh) THEN Raise(s1, sh.t)
           ELSE IF IsErr(v) THEN Raise(s1, v.t)
           ELSE SetReg(s1, interrupt_status, v))

\* JMP storing the target itself in the program counter
JMP_direct(s) ==
    WithReg(s, LAMBDA s1, r :
        LET t == s1.registers[r]
        IN IF ~IsNum(t) THEN Raise(s1, "TypeError") ELSE [s1 EXCEPT !.pc = t])

JMP(s) ==
    WithReg(s, LAMBDA s1, r :
        LET t == PySub(s1.registers[r], I(1))
        IN IF IsErr(t) THEN Raise(s1, t.t) ELSE [s1 EXCEPT !.pc = t])

\* self.flags['E']: subscripting the object self.flags refers to
FlagGet(s, k) == IF s.flags.t = "dict" THEN s.fl[k] ELSE -1

\* the shape shared by JEQ .. JGE: `if cond: self.JMP() else: self.next_byte`;
\* reading a flag raises TypeError when self.flags is not the dictionary
JumpIf(s, cond, readable) ==
    IF ~readable THEN Raise(s, "TypeError")
    ELSE IF cond THEN JMP(s) ELSE next_byte(s)

JEQ(s) == JumpIf(s, FlagGet(s, "E") = 1, s.flags.t = "dict")
JNE(s) == JumpIf(s, FlagGet(s, "E") = 0, s.flags.t = "dict")
JGT(s) == JumpIf(s, FlagGet(s, "G") = 1, s.flags.t = "dict")
JLT(s) == JumpIf(s, FlagGet(s, "L") = 1, s.flags.t = "dict")
\* JLE testing the L flag alone
JLE_strict(s) == JumpIf(s, FlagGet(s, "L") = 1, s.flags.t = "dict")

JLE(s) == JumpIf(s, FlagGet(s, "E") = 1 \/ FlagGet(s, "L") = 1, s.flags.t = "dict")
JGE(s) == JumpIf(s, FlagGet(s, "E") = 1 \/ FlagGet(s, "G") = 1, s.flags.t = "dict")

\* LDI keeping the low seven bits of the value
LDI_low7(s) ==
    Bind(next_byte(s), LAMBDA s1 :
    Bind(next_byte(s1), LAMBDA s2 :
        LET ra == RegIndex(s1.b)
        IN IF ~ra.ok THEN Raise(s2, ra.e)
           ELSE SetReg(s2, ra.i, PyAnd(s2.b, I(127)))))

LDI(s) ==
    Bind(next_byte(s), LAMBDA s1 :
    Bind(next_byte(s1), LAMBDA s2 :
        LET ra == RegIndex(s1.b)
        IN IF ~ra.ok THEN Raise(s2, ra.e) ELSE SetReg(s2, ra.i, s2.b)))

LD(s) ==
    Bind(next_byte(s), LAMBDA s1 :
    Bind(next_byte(s1), LAMBDA s2 :
        LET rb == RegIndex(s2.b)
        IN IF ~rb.ok THEN Raise(s2, rb.e)
           ELSE LET ad == Index(s2.registers[rb.i], ram_size)
                    ra == RegIndex(s1.b)
                IN IF ~ad.ok THEN Raise(s2, ad.e)
                   ELSE IF ~ra.ok THEN Raise(s2, ra.e)
                   ELSE SetReg(s2, ra.i, s2.ram[ad.i])))

ST(s) ==
    Bind(next_byte(s), LAMBDA s1 :
    Bind(next_byte(s1), LAMBDA s2 :
        LET ra == RegIndex(s1.b)
            rb == RegIndex(s2.b)
        IN IF ~ra.ok THEN Raise(s2, ra.e)
           ELSE IF ~rb.ok THEN Raise(s2, rb.e)
           ELSE LET ad == Index(s2.registers[ra.i], ram_size)
                IN IF ~ad.ok THEN Raise(s2, ad.e)
                   ELSE [s2 EXCEPT !.ram[ad.i] = s2.registers[rb.i]]))

\* ---- alu.py -------------------------------------------------------------------
\* the function a mnemonic's property passes to one_reg_operation /
\* two_reg_operation
Lambda1(op, a) ==
    CASE op = "INC" -> PyInc(a)
      [] op = "DEC" -> PyDec(a)
      [] op = "NOT" -> PyNot(a)

Lambda2(op, a, b) ==
    CASE op = "ADD" -> PyAdd(a, b)
      [] op = "SUB" -> PySub(a, b)
      [] op = "MUL" -> PyMul(a, b)
      [] op = "DIV" -> PyTrueDiv(a, b)
      [] op = "MOD" -> PyMod(a, b)
      [] op = "AND" -> PyAnd(a, b)
      [] op = "OR" -> PyOr(a, b)
      [] op = "XOR" -> PyXor(a, b)
      [] op = "SHL" -> PyShl(a, b)
      [] op = "SHR" -> PyShr(a, b)

\* ALU.one_reg_operation(alu_operation)()
one_reg_operation(s, op) ==
    WithReg(s, LAMBDA s1, r :
        LET v == Lambda1(op, s1.registers[r])
        IN IF IsErr(v) THEN Raise(s1, v.t) ELSE SetReg(s1, r, v))

\* ALU.two_reg_operation(alu_operation)()
two_reg_operation(s, op) ==
    Bind(next_byte(s), LAMBDA s1 :
    Bind(next_byte(s1), LAMBDA s2 :
        LET ra == RegIndex(s1.b)
            rb == RegIndex(s2.b)
        IN IF ~ra.ok THEN Raise(s2, ra.e)
           ELSE IF ~rb.ok THEN Raise(s2, rb.e)
           ELSE LET v == Lambda2(op, s2.registers[ra.i], s2.registers[rb.i])
                IN IF IsErr(v) THEN Raise(s2, v.t) ELSE SetReg(s2, ra.i, v)))

\* int(x) of a Python bool
Int01(x) == IF x THEN 1 ELSE 0

\* compare_operation setting G for a >= b
compare_operation_ge(s) ==
    Bind(next_byte(s), LAMBDA s1 :
    Bind(next_byte(s1), LAMBDA s2 :
        LET ra == RegIndex(s1.b)
            rb == RegIndex(s2.b)
        IN IF ~ra.ok THEN Raise(s2, ra.e)
           ELSE IF ~rb.ok THEN Raise(s2, rb.e)
           ELSE LET a == s2.registers[ra.i]
                    b == s2.registers[rb.i]
                IN IF s2.flags.t # "dict" THEN Raise(s2, "TypeError")
                   ELSE LET s3 == [s2 EXCEPT !.fl["E"] = Int01(PyEq(a, b))]
                        IN IF ~IsNum(a) \/ ~IsNum(b) THEN Raise(s3, "TypeError")
                           ELSE [s3 EXCEPT !.fl["L"] = Int01(PyLt(a, b)),
                                           !.fl["G"] = Int01(~PyLt(a, b))]))

\* ALU.compare_operation: three item assignments on self.cpu.flags; a < b and
\* a > b raise TypeError when an operand is not a number
compare_operation(s) ==
    Bind(next_byte(s), LAMBDA s1 :
    Bind(next_byte(s1), LAMBDA s2 :
        LET ra == RegIndex(s1.b)
            rb == RegIndex(s2.b)
        IN IF ~ra.ok THEN Raise(s2, ra.e)
           ELSE IF ~rb.ok THEN Raise(s2, rb.e)
           ELSE LET a == s2.registers[ra.i]
                    b == s2.registers[rb.i]
                IN IF s2.flags.t # "dict" THEN Raise(s2, "TypeError")
                   ELSE LET s3 == [s2 EXCEPT !.fl["E"] = Int01(PyEq(a, b))]
                        IN IF ~IsNum(a) \/ ~IsNum(b) THEN Raise(s3, "TypeError")
                           ELSE [s3 EXCEPT !.fl["L"] = Int01(PyLt(a, b)),
                                           !.fl["G"] = Int01(PyLt(b, a))]))

\* ---- the run loop ------------------------------------------------------------
\* self.operations[operation]()
Handler(op, s) ==
    CASE op = "NOP" -> NOP(s)
      [] op = "HLT" -> HLT(s)
      [] op = "RET" -> RET(s)
      [] op = "IRET" -> IRET(s)
      [] op = "PUSH" -> PUSH(s)
      [] op = "POP" -> POP(s)
      [] op = "PRN" -> PRN(s)
      [] op = "PRA" -> PRA(s)
      [] op = "CALL" -> CALL(s)
      [] op = "INT" -> INT(s)
      [] op = "JMP" -> JMP(s)
      [] op = "JEQ" -> JEQ(s)
      [] op = "JNE" -> JNE(s)
      [] op = "JGT" -> JGT(s)
      [] op = "JLT" -> JLT(s)
      [] op = "JLE" -> JLE(s)
      [] op = "JGE" -> JGE(s)
      [] op = "LDI" -> LDI(s)
      [] op = "LD" -> LD(s)
      [] op = "ST" -> ST(s)
      [] op = "CMP" -> compare_operation(s)
      [] op \in {"INC", "DEC", "NOT"} -> one_reg_operation(s, op)
      [] OTHER -> two_reg_operation(s, op)

\* `operation in self.operations`: the key the fetched object hashes to
\* (a float equal to an int finds the int's entry), -1 when it is no key
OpKey(v) == IF IsNum(v) /\ v.d = 1 /\ v.n \in DOMAIN operations THEN v.n ELSE -1

\* the mnemonic execute() dispatches on from state s, "?" when it raises first
Decode(s) ==
    LET s1 == next_byte(s)
    IN IF s1.exc # "" \/ OpKey(s1.b) < 0 THEN "?" ELSE operations[OpKey(s1.b)]

\* execute passing over a byte that is no key of the table
execute_skip(s) ==
    Bind(next_byte(s), LAMBDA s1 :
        IF s1.b.t = "dict" THEN Raise(s1, "TypeError")
        ELSE IF OpKey(s1.b) < 0 THEN s1
        ELSE Handler(operations[OpKey(s1.b)], s1))

\* CPU.execute
execute(s) ==
    Bind(next_byte(s), LAMBDA s1 :
        IF s1.b.t = "dict" THEN Raise(s1, "TypeError")      \* unhashable
        ELSE IF OpKey(s1.b) < 0 THEN Raise(s1, "Unsupported instruction")
        ELSE Handler(operations[OpKey(s1.b)], s1))

\* the last i in range(8) with bit i of masked set, 8 if none
RECURSIVE FirstBit_high(_, _)
FirstBit_high(masked, i) ==
    IF i >= 8 THEN 8
    ELSE LET rest == FirstBit_high(masked, i + 1)
         IN IF rest < 8 THEN rest
            ELSE IF (masked \div Pow2(i)) % 2 = 1 THEN i
            ELSE 8

\* the first i in range(8) with ((masked_interrupts >> i) & 1) == 1, 8 if none
RECURSIVE FirstBit(_, _)
FirstBit(masked, i) ==
    IF i >= 8 THEN 8
    ELSE IF (masked \div Pow2(i)) % 2 = 1 THEN i
    ELSE FirstBit(masked, i + 1)

\* the loop pushing R0..R5 only
RECURSIVE push_regs_six(_, _)
push_regs_six(s, reg) ==
    IF reg >= 6 THEN s
    ELSE Bind(stack_push(s, s.registers[reg]), LAMBDA s1 : push_regs_six(s1, reg + 1))

\* `for reg in range(7): self.stack_push(self.registers[reg])`
RECURSIVE push_regs(_, _)
push_regs(s, reg) ==
    IF reg >= 7 THEN s
    ELSE Bind(stack_push(s, s.registers[reg]), LAMBDA s1 : push_regs(s1, reg + 1))

\* an interrupt entry that also clears E, L and G after saving the flags
interupt_entry_clear(s, i) ==
    LET s1 == [s EXCEPT !.interupting = TRUE,
                        !.registers[interrupt_status] = PyXor(@, I(Pow2(i))),
                        !.b = I(i)]
    IN Bind(stack_push(s1, s1.pc), LAMBDA s2 :
       Bind(stack_push(s2, s2.flags), LAMBDA s3 :
       Bind(push_regs(s3, 0), LAMBDA s4 :
           LET ad == Index(I(interupts(i)), ram_size)
               t == PySub(s4.ram[ad.i], I(1))
           IN IF IsErr(t) THEN Raise(s4, t.t)
              ELSE [s4 EXCEPT !.pc = t, !.fl = [E |-> 0, L |-> 0, G |-> 0]])))

\* CPU.process_interupt, the body of `if interrupt_happened:` for line i;
\* the line entered is left in b
interupt_entry(s, i) ==
    LET s1 == [s EXCEPT !.interupting = TRUE,
                        !.registers[interrupt_status] = PyXor(@, I(Pow2(i))),
                        !.b = I(i)]
    IN Bind(stack_push(s1, s1.pc), LAMBDA s2 :
       Bind(stack_push(s2, s2.flags), LAMBDA s3 :
       Bind(push_regs(s3, 0), LAMBDA s4 :
           LET ad == Index(I(interupts(i)), ram_size)
               t == PySub(s4.ram[ad.i], I(1))
           IN IF IsErr(t) THEN Raise(s4, t.t)
              ELSE [s4 EXCEPT !.pc = t])))

\* process_interupt without the `not self.interupting` test
process_interupt_nested(s) ==
    IF Truthy(s.registers[interrupt_status]) THEN
        LET masked == PyAnd(s.registers[interrupt_mask], s.registers[interrupt_status])
        IN IF IsErr(masked) THEN Raise(s, masked.t)
           ELSE LET i == FirstBit(masked.n, 0)
                IN IF i >= 8 THEN s ELSE interupt_entry(s, i)
    ELSE s

\* CPU.process_interupt
process_interupt(s) ==
    IF Truthy(s.registers[interrupt_status]) /\ ~s.interupting THEN
        LET masked == PyAnd(s.registers[interrupt_mask], s.registers[interrupt_status])
        IN IF IsErr(masked) THEN Raise(s, masked.t)
           ELSE LET i == FirstBit(masked.n, 0)
                IN IF i >= 8 THEN s ELSE interupt_entry(s, i)
    ELSE s

\* CPU.interupt_timer; elapsed: more than a second since self.last_timer
interupt_timer(s, elapsed) ==
    IF elapsed /\ Truthy(s.ram[Index(I(interupts(0)), ram_size).i]) THEN
        LET v == PyOr(s.registers[interrupt_status], I(1))
        IN IF IsErr(v) THEN Raise(s, v.t) ELSE SetReg(s, interrupt_status, v)
    ELSE s

\* CPU.keyboard_poll when select() reports stdin readable; key = ord(stdin.read(1))
keyboard_poll(s, key) ==
    LET s1 == [s EXCEPT !.ram[Index(I(last_key), ram_size).i] = I(key)]
        v == PyOr(s1.registers[interrupt_status], I(2))
    IN IF IsErr(v) THEN Raise(s1, v.t) ELSE SetReg(s1, interrupt_status, v)

\* ram_load with the room test off by one (<=)
ram_load_le(s, value) ==
    LET sp == s.registers[stack_pointer]
    IN IF s.used_ram <= ram_size + sp.n THEN
            [s EXCEPT !.ram[s.used_ram] = value, !.used_ram = @ + 1]
       ELSE Raise(s, "RAM is FULL")

\* CPU.ram_load
ram_load(s, value) ==
    LET sp == s.registers[stack_pointer]
    IN IF s.used_ram < ram_size + sp.n THEN
            [s EXCEPT !.ram[s.used_ram] = value, !.used_ram = @ + 1]
       ELSE Raise(s, "RAM is FULL")

\* ---- program files and keyboard input -----------------------------------------
\* opcode of a mnemonic
Op(m) == CHOOSE o \in DOMAIN operations : operations[o] = m

\* assembler shorthands
Ins1(m, a) == <<Op(m), a>>
Ins2(m, a, b) == <<Op(m), a, b>>
Pad(p, n) == p \o [k \in 1..(n - Len(p)) |-> Op("NOP")]

\* where the programs below put their parts: two interrupt handlers, a
\* subroutine and a nested one
HandlerAt == 7 * 8
HandlerAt2 == 9 * 8
SubAt == 3 * 8
SubAt2 == 4 * 8

\* store `target` in the vector-table cell of `line` (uses R0, R1)
SetVec(line, target) ==
    Ins2("LDI", 0, ram_size + interupts(line)) \o Ins2("LDI", 1, target)
        \o Ins2("ST", 0, 1)

\* main program, then the handler at HandlerAt
WithHandler(main, handler) == Pad(main \o <<Op("HLT")>>, HandlerAt) \o handler

\* handler bodies: each returns with IRET
Handlers(line2) ==
    { <<Op("IRET")>>,
      Ins2("LDI", 0, 1) \o Ins2("LDI", 1, 2) \o Ins2("CMP", 0, 1) \o <<Op("IRET")>>,
      Ins2("CMP", 2, 1) \o <<Op("IRET")>>,
      Ins1("PUSH", 0) \o Ins1("POP", 1) \o <<Op("IRET")>>,
      Ins1("PUSH", 0) \o <<Op("IRET")>>,
      Ins1("POP", 0) \o <<Op("IRET")>>,
      Ins2("LDI", 0, 241) \o Ins2("LDI", 1, 77) \o Ins2("ST", 0, 1) \o <<Op("IRET")>>,
      Ins2("LDI", 3, line2) \o Ins1("INT", 3) \o <<Op("IRET")>> }
    \cup { Ins2("LDI", k, 9) \o <<Op("IRET")>> : k \in 0..6 }

\* an interrupt raised by INT on a masked line, serviced by each handler
IntPrograms ==
    UNION { { WithHandler(SetVec(line, HandlerAt) \o Ins2("LDI", interrupt_mask, 12)
                            \o Ins2("LDI", 2, line) \o Ins2("CMP", 2, cmp)
                            \o Ins1("INT", 2) \o Ins1("PUSH", 2) \o Ins1("POP", 4),
                          h) :
                cmp \in {1, 2}, h \in Handlers(5 - line) } : line \in {2, 3} }

\* two lines raised while the mask is 0, then unmasked together
PendingPrograms ==
    { Pad(WithHandler(SetVec(2, HandlerAt) \o SetVec(3, HandlerAt2)
                    \o Ins2("LDI", 2, 2) \o Ins2("LDI", 3, 3)
                    \o Ins1("INT", first) \o Ins1("INT", 5 - first)
                    \o Ins2("LDI", interrupt_mask, mask) \o Ins2("CMP", 2, 3),
                  Ins1("INC", 4) \o <<Op("IRET")>>), HandlerAt2)
          \o Ins1("DEC", 4) \o <<Op("IRET")>> :
        first \in {2, 3}, mask \in {4, 8, 12} }

\* the timer (line 0) and the keyboard (line 1) interrupting a main program
DevicePrograms ==
    { WithHandler(SetVec(line, HandlerAt) \o Ins2("LDI", interrupt_mask, line + 1)
                    \o Ins2("LDI", 2, SubAt) \o Ins2("CMP", 2, 1)
                    \o Ins1("PUSH", 2) \o Ins1("POP", 3) \o <<Op("HLT")>>,
                  Ins2("LDI", 0, ram_size + last_key) \o Ins2("LD", 4, 0)
                    \o Ins2("CMP", 0, 4) \o <<Op("IRET")>>) :
        line \in {0, 1} }

\* CALL at address 3 + n, a subroutine at SubAt, a nested one at SubAt2
CallPrograms ==
    { Pad(Pad([k \in 1..n |-> Op("NOP")] \o Ins2("LDI", 0, SubAt)
                \o Ins1("CALL", 0) \o Ins1("PRN", 0) \o <<Op("HLT")>>, SubAt)
            \o body \o <<Op("RET")>>, SubAt2)
          \o Ins1("INC", 3) \o <<Op("RET")>> :
        n \in 0..2,
        body \in { <<>>,
                   Ins1("PUSH", 1) \o Ins1("POP", 2),
                   Ins2("LDI", 1, SubAt2) \o Ins1("CALL", 1),
                   Ins2("LDI", 1, SubAt2) \o Ins1("PUSH", 1),
                   Ins1("POP", 1) } }

\* PUSH r; POP q with and without a prior write to the register
StackPrograms ==
    UNION { { pre \o Ins1("PUSH", r) \o Ins1("POP", q) \o Ins1("POP", q) :
                q \in 0..7,
                pre \in { <<>>, Ins2("LDI", r, 200), Ins2("LDI", stack_pointer, 3),
                          Ins1("DEC", stack_pointer) } } : r \in 0..7 }
    \cup { <<Op("RET")>>, Ins1("POP", 0), Ins1("PUSH", 0) \o <<Op("RET")>> }

\* programs filling memory up to the stack: two pushes, a CALL, an
\* interrupt entry with less room than they need
FullPrograms ==
    { Pad(SetVec(2, 0) \o Ins2("LDI", interrupt_mask, 4) \o Ins2("LDI", 2, 2)
            \o body \o <<Op("HLT")>>, len) :
        len \in 240..242,
        body \in { Ins1("PUSH", 0) \o Ins1("PUSH", 1),
                   Ins1("CALL", 0),
                   Ins1("INT", 2) } }

\* DIV and MOD with zero and non-zero divisors
DivPrograms ==
    { Ins2("LDI", 0, a) \o Ins2("LDI", 1, b) \o Ins2(m, 0, 1) \o Ins2(m, 0, 0) :
        a \in {0, 5}, b \in {0, 2}, m \in {"DIV", "MOD"} }

\* a byte that is no key of the dispatch table where an opcode is fetched:
\* B0 (ADDI of alu_ext.py), 02, FF, each followed by two operand bytes
UnsupportedPrograms ==
    { Ins2("LDI", 0, 5) \o <<op, 0, 3>> : op \in {ADDI_opcode, 2, 255} }

\* ways to leave an address in R0: -1 (the initial value), 255, 256, -256, -257
Addresses ==
    { <<>>,
      Ins2("LDI", 0, 255),
      Ins2("LDI", 0, 255) \o Ins1("INC", 0),
      Ins2("LDI", 0, 255) \o Ins1("NOT", 0),
      Ins2("LDI", 0, 255) \o Ins1("NOT", 0) \o Ins1("DEC", 0) }

\* LD and ST through R0, and the instruction pointer sent to R0 (250: the
\* NOPs up to the last cell; 255 with an LDI opcode stored there; the others)
AddressPrograms ==
    { pre \o Ins2("LDI", 1, 77) \o body :
        pre \in Addresses,
        body \in { Ins2("LD", 1, 0), Ins2("ST", 0, 1), Ins1("JMP", 0) } }
    \cup { Ins2("LDI", 0, 250) \o Ins1("JMP", 0),
           Ins2("LDI", 0, 255) \o Ins2("LDI", 1, Op("LDI")) \o Ins2("ST", 0, 1)
               \o Ins1("JMP", 0) }

\* files of 241..244 lines, line k holding 7k mod 256: with the closing HLT
\* the loader calls ram_load 242..245 times
LoadPrograms ==
    { [k \in 1..len |-> (7 * k) % ram_size] : len \in 241..244 }

\* CMP of two loaded bytes, both ways round, of a register with itself and
\* with the initial -1 of R2
CmpPrograms ==
    { Ins2("LDI", 0, a) \o Ins2("LDI", 1, b) \o Ins2("CMP", 0, 1)
          \o Ins2("CMP", 1, 0) \o Ins2("CMP", 0, 0) \o Ins2("CMP", 2, 0) :
        a \in {0, 1, 255}, b \in {0, 1, 255} }

\* the mnemonics of the jumps taking one register operand
Jumps == {"JMP", "JEQ", "JNE", "JGT", "JLT", "JLE", "JGE"}

\* each jump to SubAt, after CMP of a smaller, an equal and a greater value
\* and on the flags as constructed
JumpPrograms ==
    { Pad(Ins2("LDI", 2, SubAt) \o pre \o Ins1(j, 2) \o Ins1("PRN", 0)
              \o <<Op("HLT")>>, SubAt) \o Ins1("INC", 3) :
        j \in Jumps,
        pre \in { <<>> } \cup
                { Ins2("LDI", 0, a) \o Ins2("LDI", 1, 2) \o Ins2("CMP", 0, 1) :
                    a \in 1..3 } }

\* LDI r, v for every register index and every byte
LdiPrograms ==
    { Ins2("LDI", r, v) : r \in 0..(NumRegs - 1), v \in 0..(ram_size - 1) }

\* status s and mask m loaded directly, lines 1 and 2 with handlers of
\* their own (the other vectors hold 0); a status of -1; status and mask
\* with bit 8 alone
LinePrograms ==
    { Pad(WithHandler(SetVec(1, HandlerAt) \o SetVec(2, HandlerAt2)
                          \o Ins2("LDI", interrupt_status, st)
                          \o Ins2("LDI", interrupt_mask, m),
                      <<Op("IRET")>>), HandlerAt2) \o <<Op("IRET")>> :
        st \in {2, 4, 6, 255}, m \in {0, 2, 4, 6, 255} }
    \cup { Ins2("LDI", interrupt_mask, 4) \o Ins1("DEC", interrupt_status),
           Ins2("LDI", interrupt_mask, 128) \o Ins2("ADD", interrupt_mask, interrupt_mask)
               \o Ins2("LDI", interrupt_status, 128)
               \o Ins2("ADD", interrupt_status, interrupt_status) }

\* every two-register ALU operation on (12, 2) and (5, 3), then a
\* one-register operation or a print on the second register
AluPrograms ==
    { Ins2("LDI", 0, ab[1]) \o Ins2("LDI", 1, ab[2]) \o Ins2(m2, 0, 1)
          \o Ins1(m1, 1) :
        ab \in {<<12, 2>>, <<5, 3>>},
        m2 \in {"ADD", "SUB", "MUL", "DIV", "MOD", "AND", "OR", "XOR", "SHL", "SHR"},
        m1 \in {"INC", "DEC", "NOT", "PRN", "PRA"} }

\* a register operand byte that is no index of the eight registers: 8, 9 and
\* 255 in each operand position, and -1 stored over the operand of INC
RegisterPrograms ==
    { Ins1(m, b) : m \in {"PUSH", "POP", "INC", "PRN", "JMP"}, b \in {8, 9, 255} }
    \cup { Ins2(m, ab[1], ab[2]) :
              m \in {"LDI", "LD", "ST", "ADD", "CMP"},
              ab \in {<<8, 0>>, <<0, 9>>, <<255, 255>>} }
    \cup { Ins2("LDI", 0, 7) \o Ins2("ST", 0, 1) \o Ins1("INC", 0) }

\* CMP of 1, 2 and 3 with 2 (L, E, G set in turn), then one instruction that
\* is not a compare: each ALU operation, a stack operation, a print, NOP,
\* or CALL of a subroutine that returns at once
FlagPrograms ==
    { Pad(Ins2("LDI", 0, a) \o Ins2("LDI", 1, 2) \o Ins2("LDI", 2, SubAt)
              \o Ins2("CMP", 0, 1) \o ins \o <<Op("HLT")>>, SubAt) \o <<Op("RET")>> :
        a \in 1..3,
        ins \in { Ins2(m, 0, 1) : m \in {"ADD", "SUB", "MUL", "DIV", "MOD", "AND", "OR",
                                         "XOR", "SHL", "SHR", "LD", "ST"} }
                \cup { Ins1(m, 1) : m \in {"INC", "DEC", "NOT", "PRN", "PRA", "PUSH", "POP"} }
                \cup { <<Op("NOP")>>, Ins1("CALL", 2) } }

\* an interrupt raised by INT after a PUSH, the stack pointer as the push
\* left it, or decremented, incremented or set to 200 before and after the
\* push; the handler returns at once, uses the stack, or stores over the
\* oldest stack cell
StackIntPrograms ==
    { WithHandler(SetVec(2, HandlerAt) \o Ins2("LDI", interrupt_mask, 4)
                    \o Ins2("LDI", 2, 2) \o pre \o Ins1("PUSH", 3) \o post
                    \o Ins1("INT", 2) \o Ins1("POP", 4),
                  h \o <<Op("IRET")>>) :
        pre \in { <<>>, Ins1("DEC", stack_pointer), Ins1("INC", stack_pointer),
                  Ins2("LDI", stack_pointer, 200) },
        post \in { <<>>, Ins1("DEC", stack_pointer), Ins1("INC", stack_pointer),
                   Ins2("LDI", stack_pointer, 200) },
        h \in { <<>>,
                Ins1("PUSH", 0) \o Ins1("POP", 1),
                Ins2("LDI", 0, ram_size + stack_start) \o Ins2("ST", 0, 1) } }

Programs ==
    IntPrograms \cup PendingPrograms \cup DevicePrograms \cup CallPrograms
        \cup StackPrograms \cup FullPrograms \cup DivPrograms
        \cup UnsupportedPrograms \cup AddressPrograms \cup LoadPrograms
        \cup CmpPrograms \cup JumpPrograms \cup LdiPrograms \cup LinePrograms
        \cup AluPrograms \cup RegisterPrograms \cup FlagPrograms
        \cup StackIntPrograms

Stdin0 == [k \in 1..MaxKeys |-> 96 + k]

\* ---- history records -----------------------------------------------------------
\* last / prev: the handler run (op "ENTRY" for an interrupt entry), the
\* address `at` of its opcode, its first operand byte b1 and the register r
\* that selects, the exception it raised, the registers and flags it started
\* from; for RET / IRET whether it closed a balanced CALL / interrupt service
\* (stack pointer and saved cells as the CALL / entry left them), and for such
\* a RET the address c of the CALL's opcode and the stack pointer csp before it
NoOp == [op |-> "", at |-> I(0), b1 |-> I(0), r |-> -1, exc |-> "",
         regs |-> registers, flags |-> flags, fl |-> fl,
         balanced |-> FALSE, c |-> I(0), csp |-> I(0)]

\* isr: the last interrupt entry: its line, the registers, flags and
\* instruction pointer before it, the stack pointer and the nine saved cells
\* after it, the lines raised since (INT, timer, keyboard) while it is active,
\* the stack in use before it and after it
NoIsr == [active |-> FALSE, line |-> -1, regs |-> registers, flags |-> flags,
          fl |-> fl, pc |-> I(0), sp |-> I(0), frame |-> <<>>, raised |-> {},
          stack |-> <<>>, after |-> <<>>]

\* the n cells above stack pointer sp (the last n values pushed), top first
Frame(mem, sp, n) ==
    IF IsInt(sp) /\ sp.n + 1 >= -ram_size /\ sp.n + n < ram_size
    THEN [k \in 1..n |-> mem[(sp.n + k) % ram_size]]
    ELSE <<>>

\* CPU.stack: self.ram[stack_start:sp:-1], the cells in use from the stack
\* start down to the one above the stack pointer
stack(mem, sp) ==
    IF ~IsInt(sp) THEN <<>>
    ELSE LET top == ram_size + stack_start
             stop == IF sp.n >= 0 THEN sp.n
                     ELSE IF sp.n + ram_size >= 0 THEN sp.n + ram_size
                     ELSE -1
         IN [k \in 1..(top - stop) |-> mem[top + 1 - k]]

\* ---- the process: load(file), then run() ---------------------------------------
Init ==
    /\ ram = [a \in 0..(ram_size - 1) |-> I(0)]
    /\ used_ram = 0
    /\ registers = [r \in 0..(NumRegs - 1) |->
                      IF r \in {interrupt_mask, interrupt_status} THEN I(0)
                      ELSE IF r = stack_pointer THEN I(stack_start)
                      ELSE I(-1)]
    /\ flags = DICT
    /\ fl = [E |-> 0, L |-> 0, G |-> 0]
    /\ program_counter = I(-1)
    /\ interupting = FALSE
    /\ running = 1
    /\ loc = "load"
    /\ exc = ""
    /\ file \in Programs
    /\ stdin = Stdin0
    /\ steps = 0
    /\ pushlog = <<>>
    /\ last = NoOp
    /\ prev = NoOp
    /\ isr = NoIsr
    /\ calls = <<>>
    /\ tampered = FALSE
    /\ loaded = <<>>

\* every number of the state is inside the modelled range
InModel(t) ==
    /\ t.pc.t # "big"
    /\ \A r \in 0..(NumRegs - 1) : t.registers[r].t # "big"

\* the CPU object after a call that left it as t; the process goes on at
\* `next` unless the call raised
Commit(t, next) ==
    /\ InModel(t)
    /\ ram' = t.ram
    /\ used_ram' = t.used_ram
    /\ registers' = t.registers
    /\ flags' = t.flags
    /\ fl' = t.fl
    /\ program_counter' = t.pc
    /\ interupting' = t.interupting
    /\ exc' = t.exc
    /\ loc' = IF t.exc # "" THEN "raised" ELSE next
    /\ pushlog' = t.pushlog
    /\ tampered' = (tampered \/ stack_pointer \in t.wrote)

\* load(): one line of the file
RamLoad ==
    /\ loc = "load"
    /\ file # <<>>
    /\ LET t == ram_load(Self, I(Head(file)))
       IN /\ Commit(t, "load")
          /\ loaded' = IF t.exc = "" THEN Append(loaded, Head(file)) ELSE loaded
    /\ file' = Tail(file)
    /\ UNCHANGED <<running, stdin, steps, last, prev, isr, calls>>

\* load(): the closing ram_load(HLT); then run() starts
LoadEnd ==
    /\ loc = "load"
    /\ file = <<>>
    /\ LET t == ram_load(Self, I(Op("HLT")))
       IN /\ Commit(t, "process_interupt")
          /\ loaded' = IF t.exc = "" THEN Append(loaded, Op("HLT")) ELSE loaded
    /\ UNCHANGED <<running, file, stdin, steps, last, prev, isr, calls>>

\* run(): self.process_interupt()
ProcessInterupt ==
    /\ loc = "process_interupt"
    /\ steps < MaxSteps
    /\ LET t == process_interupt(Self)
           entered == t.interupting /\ ~interupting
       IN /\ Commit(t, "execute")
          /\ isr' = IF entered
                    THEN [active |-> t.exc = "", line |-> t.b.n, regs |-> registers,
                          flags |-> flags, fl |-> fl, pc |-> program_counter,
                          sp |-> t.registers[stack_pointer],
                          frame |-> Frame(t.ram, t.registers[stack_pointer], 9),
                          raised |-> {},
                          stack |-> stack(ram, registers[stack_pointer]),
                          after |-> stack(t.ram, t.registers[stack_pointer])]
                    ELSE isr
          /\ last' = IF entered
                     THEN [NoOp EXCEPT !.op = "ENTRY", !.r = t.b.n, !.exc = t.exc]
                     ELSE last
          /\ prev' = IF entered THEN last ELSE prev
    /\ steps' = steps + 1
    /\ UNCHANGED <<running, file, stdin, calls, loaded>>

\* run(): running = self.execute()
Execute ==
    /\ loc = "execute"
    /\ LET t == execute(Self)
           op == Decode(Self)
           at == next_byte(Self).pc
           b1 == next_byte(next_byte(Self))
           r == IF b1.exc = "" /\ RegIndex(b1.b).ok THEN RegIndex(b1.b).i ELSE -1
           sp == registers[stack_pointer]
           top == calls[Len(calls)]
           retbal == /\ calls # <<>>
                     /\ sp = top.sp_after
                     /\ Frame(ram, sp, 1) = top.frame
           iretbal == /\ isr.active
                      /\ interupting
                      /\ sp = isr.sp
                      /\ Frame(ram, sp, 9) = isr.frame
       IN /\ Commit(t, "interupt_timer")
          /\ running' = t.ret
          /\ last' = [op |-> op, at |-> at, r |-> r, exc |-> t.exc,
                      b1 |-> IF b1.exc = "" THEN b1.b ELSE Err(b1.exc),
                      regs |-> registers, flags |-> flags, fl |-> fl,
                      balanced |-> (op = "RET" /\ retbal) \/ (op = "IRET" /\ iretbal),
                      c |-> IF op = "RET" /\ retbal THEN top.c ELSE I(0),
                      csp |-> IF op = "RET" /\ retbal THEN top.sp ELSE I(0)]
          /\ prev' = last
          /\ calls' = IF op = "CALL" /\ t.exc = ""
                      THEN Append(calls, [c |-> at, sp |-> sp,
                                          sp_after |-> t.registers[stack_pointer],
                                          frame |-> Frame(t.ram, t.registers[stack_pointer], 1)])
                      ELSE IF op = "RET"
                      THEN (IF retbal THEN SubSeq(calls, 1, Len(calls) - 1) ELSE <<>>)
                      ELSE calls
          /\ isr' = IF op = "IRET" THEN [isr EXCEPT !.active = FALSE]
                    ELSE IF op = "INT" /\ t.exc = "" /\ isr.active
                    THEN [isr EXCEPT !.raised = @ \cup {registers[r].n}]
                    ELSE isr
    /\ UNCHANGED <<file, stdin, steps, loaded>>

\* run(): self.interupt_timer()
InteruptTimer ==
    /\ loc = "interupt_timer"
    /\ \E elapsed \in BOOLEAN :
         LET t == interupt_timer(Self, elapsed)
         IN /\ Commit(t, "keyboard_poll")
            /\ isr' = IF isr.active /\ t.exc = "" /\ interrupt_status \in t.wrote
                      THEN [isr EXCEPT !.raised = @ \cup {0}] ELSE isr
    /\ UNCHANGED <<running, file, stdin, steps, last, prev, calls, loaded>>

\* run(): self.keyboard_poll() with no key waiting, then the loop test
KeyboardIdle ==
    /\ loc = "keyboard_poll"
    /\ Commit(Self, IF running # 0 THEN "process_interupt" ELSE "done")
    /\ UNCHANGED <<running, file, stdin, steps, last, prev, isr, calls, loaded>>

\* run(): self.keyboard_poll() reading one key, then the loop test
KeyboardPoll ==
    /\ loc = "keyboard_poll"
    /\ stdin # <<>>
    /\ LET t == keyboard_poll(Self, Head(stdin))
       IN /\ Commit(t, IF running # 0 THEN "process_interupt" ELSE "done")
          /\ isr' = IF isr.active /\ t.exc = ""
                    THEN [isr EXCEPT !.raised = @ \cup {1}] ELSE isr
    /\ stdin' = Tail(stdin)
    /\ UNCHANGED <<running, file, steps, last, prev, calls, loaded>>

Next ==
    \/ RamLoad
    \/ LoadEnd
    \/ ProcessInterupt
    \/ Execute
    \/ InteruptTimer
    \/ KeyboardIdle
    \/ KeyboardPoll

Spec == Init /\ [][Next]_vars

\* ---- properties -----------------------------------------------------------------
\* bit j of the Python int v is set
Bit(v, j) == IsInt(v) /\ (v.n \div Pow2(j)) % 2 = 1

\* execute() has just returned from handler m
After(m) == loc = "interupt_timer" /\ last.op = m /\ last.exc = ""

\* IRET has just closed an interrupt service whose handler left the stack
\* as the entry left it
Serviced == After("IRET") /\ last.balanced

\* the first and second operand bytes of the instruction execute() is about
\* to run, as register indices
OperandA == RegIndex(next_byte(next_byte(Self)).b)
OperandB == RegIndex(next_byte(next_byte(next_byte(Self))).b)
OperandsOk == next_byte(next_byte(next_byte(Self))).exc = "" /\ OperandA.ok /\ OperandB.ok

\* the CPU object after execute() has fetched the opcode, the first and the
\* second operand byte of the instruction it is about to run
Fetch1 == next_byte(Self)
Fetch2 == next_byte(Fetch1)
Fetch3 == next_byte(Fetch2)

\* C1: after an interrupt serviced to completion the flags E, L, G equal
\* their values immediately before the entry, whatever the handler compared
C1_FlagsRestored ==
    Serviced => flags = isr.flags /\ fl = isr.fl

\* C2: after an interrupt on line i serviced to completion, R0..R5 equal
\* their values before the entry and R6 its value before the entry with
\* only bit i cleared
C2_RegistersRestored ==
    Serviced =>
        /\ \A r \in 0..5 : registers[r] = isr.regs[r]
        /\ Bit(isr.regs[interrupt_status], isr.line)
        /\ registers[interrupt_status] =
               I(isr.regs[interrupt_status].n - Pow2(isr.line))

\* a service completed whose handler had overwritten a register
C2_Witness ==
    /\ Serviced
    /\ \E r \in 0..5 : last.regs[r] # isr.regs[r]

\* C3: a masked line other than the one in service that is pending since
\* before the entry, or is raised during the handler by INT, the timer or
\* the keyboard, still has its status bit set after the IRET that ends
\* the service
C3_PendingKept ==
    Serviced =>
        \A j \in 0..7 :
            /\ j # isr.line
            /\ j \in isr.raised \/ Bit(isr.regs[interrupt_status], j)
            /\ Bit(registers[interrupt_mask], j)
            => Bit(registers[interrupt_status], j)

\* C4: while an interrupt is in service process_interupt enters no other:
\* it leaves memory, registers, flags, instruction pointer and `interupting`
\* as they are, even with status & mask non-zero
C4_OneInService ==
    [][(loc = "process_interupt" /\ interupting) => UNCHANGED cpu]_vars

\* process_interupt has just returned, an interrupt in service, with a
\* masked line pending
C4_Witness ==
    /\ loc = "execute"
    /\ interupting
    /\ pushlog = <<>>
    /\ IsInt(registers[interrupt_mask]) /\ IsInt(registers[interrupt_status])
    /\ BitAnd(registers[interrupt_mask].n, registers[interrupt_status].n) # 0

\* C5: after CALL at address c (operand at c + 1), a body that leaves the
\* stack as the CALL left it, and RET, the next opcode is fetched from
\* c + 2 and the stack pointer is the one before the CALL
C5_CallRet ==
    (After("RET") /\ last.balanced) =>
        /\ next_byte(Self).pc = I(last.c.n + 2)
        /\ registers[stack_pointer] = last.csp

\* a RET closing a CALL whose body used the stack or called in turn
C5_Witness ==
    /\ After("RET") /\ last.balanced
    /\ prev.op \in {"POP", "RET"}
    /\ last.c.n > 3

\* PUSH r has run and POP r, the next thing run after it, has just
\* returned or raised; r in 0..7
PushThenPop ==
    /\ loc \in {"interupt_timer", "raised"}
    /\ last.op = "POP" /\ prev.op = "PUSH" /\ prev.exc = ""
    /\ IsInt(last.b1) /\ last.b1.n \in 0..7 /\ prev.b1 = last.b1

\* C6 as stated: from every state in which the push does not overflow,
\* PUSH r; POP r leaves register r and the stack pointer as before the PUSH
C6_PushPopAnySp ==
    PushThenPop =>
        /\ registers[last.r] = prev.regs[last.r]
        /\ registers[stack_pointer] = prev.regs[stack_pointer]

\* C6 amended: the same from every state whose stack pointer is at or
\* below stack_start
C6_PushPop ==
    (PushThenPop /\ PyLt(prev.regs[stack_pointer], I(stack_start + 1))) =>
        /\ last.exc = ""
        /\ registers[last.r] = prev.regs[last.r]
        /\ registers[stack_pointer] = prev.regs[stack_pointer]

\* PUSH 7; POP 7 has run on the stack pointer's initial value
C6_Witness ==
    /\ PushThenPop /\ After("POP")
    /\ last.r = stack_pointer
    /\ prev.regs[stack_pointer] = I(stack_start)

SpInRegion ==
    /\ IsInt(registers[stack_pointer])
    /\ registers[stack_pointer].n <= stack_start
    /\ registers[stack_pointer].n + ram_size >= used_ram

\* C8 as stated: in every reachable state of every program the stack
\* pointer is inside the stack region
C8_SpInRegionAlways == SpInRegion

\* C8 amended: it is, as long as register 7 is changed by stack_push and
\* stack_pop only
C8_SpInRegion == ~tampered => SpInRegion

\* the stack has grown down to the first cell above the loaded program
C8_Witness ==
    /\ ~tampered
    /\ loc = "interupt_timer"
    /\ registers[stack_pointer].n + ram_size = used_ram

\* C9: POP or RET reaching stack_pop with the stack pointer at stack_start
\* raises Stack Underflow; registers and memory are unchanged, run() is
\* left, and nothing runs after it
C9_Underflow ==
    [][/\ (/\ loc = "execute"
           /\ registers[stack_pointer] = I(stack_start)
           /\ \/ Decode(Self) = "RET"
              \/ Decode(Self) = "POP" /\ next_byte(next_byte(Self)).exc = "")
          => /\ exc' = "Stack Underflow"
             /\ loc' = "raised"
             /\ registers' = registers
             /\ ram' = ram
       /\ loc = "raised" => UNCHANGED vars]_vars

\* POP or RET has raised Stack Underflow on the empty stack
C9_Witness ==
    /\ exc = "Stack Underflow"
    /\ loc = "raised"
    /\ last.op \in {"POP", "RET"}
    /\ last.regs[stack_pointer] = I(stack_start)

\* C10: DIV or MOD with 0 in the second operand register ends run() with
\* an exception, ZeroDivisionError when registerA holds a number; no
\* register is assigned and nothing runs after it
C10_DivisionByZero ==
    [][(/\ loc = "execute"
        /\ Decode(Self) \in {"DIV", "MOD"}
        /\ OperandsOk
        /\ IsNum(registers[OperandB.i]) /\ registers[OperandB.i].n = 0)
       => /\ loc' = "raised"
          /\ registers' = registers
          /\ IsNum(registers[OperandA.i]) => exc' = "ZeroDivisionError"]_vars

\* DIV or MOD has raised ZeroDivisionError with a non-zero dividend
C10_Witness ==
    /\ exc = "ZeroDivisionError"
    /\ loc = "raised"
    /\ last.op \in {"DIV", "MOD"}
    /\ \E r \in 0..4 : last.regs[r] = I(5)

\* C11: opcode B0 (ADDI) is executed: it consumes a register index and a
\* literal byte, stores register + literal in that register, advances the
\* instruction pointer by 3 and does not fail
C11_ADDI ==
    [][(/\ loc = "execute"
        /\ Fetch3.exc = ""
        /\ Fetch1.b = I(ADDI_opcode)
        /\ OperandA.ok /\ IsInt(registers[OperandA.i]) /\ IsInt(Fetch3.b))
       => /\ exc' = ""
          /\ registers' = [registers EXCEPT
                              ![OperandA.i] = I(@.n + Fetch3.b.n)]
          /\ program_counter' = I(program_counter.n + 3)]_vars

\* C12: a number fetched as opcode that is no key of the dispatch table
\* makes execute() raise "Unsupported instruction" and run() end; the
\* instruction pointer has advanced by one, no register, flag or memory
\* cell has changed, nothing was pushed and no handler ran
C12_Unsupported ==
    [][/\ (/\ loc = "execute"
           /\ Fetch1.exc = ""
           /\ IsNum(Fetch1.b) /\ OpKey(Fetch1.b) < 0)
          => /\ exc' = "Unsupported instruction"
             /\ loc' = "raised"
             /\ program_counter' = I(program_counter.n + 1)
             /\ UNCHANGED <<ram, used_ram, registers, flags, fl, interupting>>
             /\ pushlog' = <<>>
             /\ last'.op = "?"
       /\ exc = "Unsupported instruction" => UNCHANGED vars]_vars

\* execute() has raised on the byte after LDI R0,5
C12_Witness ==
    /\ exc = "Unsupported instruction"
    /\ loc = "raised"
    /\ last.op = "?"
    /\ registers[0] = I(5)
    /\ program_counter = I(3)

\* the operand bytes a handler fetches: its next_byte reads after the opcode
OperandBytes(m) ==
    IF m \in {"NOP", "HLT", "RET", "IRET", "?"} THEN 0
    ELSE IF m \in {"PUSH", "POP", "PRN", "PRA", "CALL", "INT", "JMP", "JEQ", "JNE",
                   "JGT", "JLT", "JLE", "JGE", "INC", "DEC", "NOT"} THEN 1
    ELSE 2

\* the integer a is no position of the 256-cell memory, counted from the
\* front (0..255) or from the back (-256..-1)
OutOfRange(a) == a < -ram_size \/ a >= ram_size

\* execute() is about to run LD with such an address in registerB
FailingLD ==
    /\ Decode(Self) = "LD" /\ OperandsOk
    /\ IsInt(registers[OperandB.i]) /\ OutOfRange(registers[OperandB.i].n)

\* ... ST with such an address in registerA
FailingST ==
    /\ Decode(Self) = "ST" /\ OperandsOk
    /\ IsInt(registers[OperandA.i]) /\ OutOfRange(registers[OperandA.i].n)

\* ... a fetch, of the opcode or of an operand byte of the handler it
\* dispatches to, with the incremented instruction pointer off the memory
FailingFetch ==
    /\ IsInt(program_counter)
    /\ \/ OutOfRange(program_counter.n + 1)
       \/ /\ Decode(Self) \notin {"?", "JEQ", "JNE", "JGT", "JLT", "JLE", "JGE"}
             \/ (Decode(Self) # "?" /\ flags = DICT)
          /\ \E k \in 1..OperandBytes(Decode(Self)) :
                OutOfRange(program_counter.n + 1 + k)

C14_RamLoad ==
    [][loc = "load" =>
        LET value == IF file # <<>> THEN Head(file) ELSE Op("HLT")
            full == used_ram >= ram_size + registers[stack_pointer].n
        IN /\ full => /\ exc' = "RAM is FULL"
                       /\ loc' = "raised"
                       /\ ram' = ram
                       /\ used_ram' = used_ram
           /\ ~full => /\ exc' = ""
                        /\ used_ram' = used_ram + 1
                        /\ ram' = [ram EXCEPT ![used_ram] = I(value)]
           /\ used_ram' = Len(loaded')
           /\ \A a \in 0..(used_ram' - 1) : ram'[a] = I(loaded'[a + 1])
           /\ \A a \in (ram_size + stack_start)..(ram_size - 1) : ram'[a] = I(0)]_vars

\* the loader has filled cells 0..242 and its next call was refused
C14_Witness ==
    /\ exc = "RAM is FULL"
    /\ loc = "raised"
    /\ used_ram = ram_size + stack_start
    /\ Len(loaded) = used_ram
    /\ ram[used_ram - 1] = I((7 * used_ram) % ram_size)

\* C15: CMP regA, regB on integers a, b (self.flags being the flags
\* dictionary) returns with E = 1 exactly when a = b, L = 1 exactly when
\* a < b, G = 1 exactly when a > b, so one flag is 1 and two are 0; no
\* register is changed
C15_Compare ==
    [][(/\ loc = "execute"
        /\ Decode(Self) = "CMP" /\ OperandsOk
        /\ IsInt(registers[OperandA.i]) /\ IsInt(registers[OperandB.i])
        /\ flags = DICT)
       => LET a == registers[OperandA.i].n
              b == registers[OperandB.i].n
          IN /\ exc' = ""
             /\ fl' = [E |-> Int01(a = b), L |-> Int01(a < b), G |-> Int01(a > b)]
             /\ fl'.E + fl'.L + fl'.G = 1
             /\ registers' = registers
             /\ flags' = flags]_vars

\* CMP has returned with G set after an earlier CMP had set L
C15_Witness ==
    /\ After("CMP")
    /\ last.fl = [E |-> 0, L |-> 1, G |-> 0]
    /\ fl = [E |-> 0, L |-> 0, G |-> 1]

\* C16: LDI r, v with r in 0..7 and v in 0..255 returns with v in
\* register r, every other register, the flags and memory unchanged, and
\* the instruction pointer advanced by 3
C16_LDI ==
    [][(/\ loc = "execute"
        /\ Decode(Self) = "LDI" /\ Fetch3.exc = ""
        /\ IsInt(Fetch2.b) /\ Fetch2.b.n \in 0..7
        /\ IsInt(Fetch3.b) /\ Fetch3.b.n \in 0..255)
       => /\ exc' = ""
          /\ registers' = [registers EXCEPT ![Fetch2.b.n] = Fetch3.b]
          /\ UNCHANGED <<ram, flags, fl>>
          /\ program_counter' = I(program_counter.n + 3)]_vars

\* LDI 7, 255 has returned
C16_Witness ==
    /\ After("LDI")
    /\ last.r = stack_pointer
    /\ registers[stack_pointer] = I(255)
    /\ last.regs[stack_pointer] = I(stack_start)

\* the lines 0..7 whose bit is set in both the status and the mask register
PendingLines ==
    { i \in 0..7 : Bit(registers[interrupt_status], i)
                     /\ Bit(registers[interrupt_mask], i) }

\* C17 as stated: process_interupt with no interrupt in service and
\* status & mask non-zero enters an interrupt, on the lowest line set in
\* both registers: it clears that status bit and no other, and unless a
\* push of the entry raises, the next opcode is fetched from the address in
\* that line's vector cell
C17_LowestLineAnyWidth ==
    [][(/\ loc = "process_interupt"
        /\ ~interupting
        /\ IsInt(registers[interrupt_status]) /\ IsInt(registers[interrupt_mask])
        /\ BitAnd(registers[interrupt_status].n, registers[interrupt_mask].n) # 0)
       => LET i == last'.r
              vector == ram'[ram_size + interupts(i)]
          IN /\ interupting'
             /\ last'.op = "ENTRY" /\ i \in PendingLines
             /\ \A j \in PendingLines : i <= j
             /\ registers'[interrupt_status] =
                    I(registers[interrupt_status].n - Pow2(i))
             /\ (exc' = "" /\ IsInt(vector))
                    => program_counter' = I(vector.n - 1)]_vars

\* C17 amended: with a line of 0..7 set in both status and mask it does
\* so, and the mask register is unchanged; with no such line (the pending
\* lines unmasked, or status & mask non-zero in bits above 7 only) it
\* enters nothing
C17_LowestLine ==
    [][(/\ loc = "process_interupt"
        /\ ~interupting
        /\ IsInt(registers[interrupt_status]) /\ IsInt(registers[interrupt_mask]))
       => IF PendingLines = {} THEN UNCHANGED cpu
          ELSE LET i == CHOOSE l \in PendingLines : \A j \in PendingLines : l <= j
                   vector == ram'[ram_size + interupts(i)]
               IN /\ interupting'
                  /\ last'.op = "ENTRY" /\ last'.r = i
                  /\ registers'[interrupt_status] =
                         I(registers[interrupt_status].n - Pow2(i))
                  /\ registers'[interrupt_mask] = registers[interrupt_mask]
                  /\ (exc' = "" /\ IsInt(vector))
                         => program_counter' = I(vector.n - 1)]_vars

\* line 2 has been entered with line 1 pending and unmasked; line 1 is
\* still pending
C17_Witness ==
    /\ loc = "execute"
    /\ last.op = "ENTRY" /\ last.r = 2
    /\ isr.regs[interrupt_status] = I(6) /\ isr.regs[interrupt_mask] = I(4)
    /\ registers[interrupt_status] = I(2)
    /\ program_counter = I(HandlerAt2 - 1)

\* the flag condition of conditional jump m, on the flags dictionary
FlagCond(m) ==
    CASE m = "JEQ" -> fl.E = 1
      [] m = "JNE" -> fl.E = 0
      [] m = "JGT" -> fl.G = 1
      [] m = "JLT" -> fl.L = 1
      [] m = "JLE" -> fl.E = 1 \/ fl.L = 1
      [] m = "JGE" -> fl.E = 1 \/ fl.G = 1

\* execute() is about to run jump or call m with an integer in the operand
\* register (for a conditional jump: self.flags being the flags dictionary)
AboutToJump(m) ==
    /\ loc = "execute"
    /\ Decode(Self) = m /\ Fetch2.exc = "" /\ OperandA.ok
    /\ IsInt(registers[OperandA.i])
    /\ m \in Jumps \ {"JMP"} => flags = DICT

\* C18: JMP, CALL (unless its push raises) and a conditional jump whose
\* flag condition holds leave the instruction pointer one below the address
\* in the operand register, so that the next fetch reads the byte at that
\* address; a conditional jump whose condition does not hold returns with
\* the instruction pointer advanced by exactly 2
C18_Transfer ==
    [][\A m \in Jumps \cup {"CALL"} :
        AboutToJump(m) =>
            LET target == registers[OperandA.i].n
            IN IF m = "CALL"
               THEN exc' = "" => program_counter' = I(target - 1)
               ELSE /\ exc' = ""
                    /\ program_counter' =
                           IF m = "JMP" \/ FlagCond(m) THEN I(target - 1)
                           ELSE I(program_counter.n + 2)]_vars

\* JGE has jumped to SubAt on G = 1
C18_Witness ==
    /\ After("JGE")
    /\ last.fl.G = 1
    /\ last.regs[last.r] = I(SubAt)
    /\ program_counter = I(SubAt - 1)

\* the operands a and b of the CMP that has just run
CmpA == last.regs[RegIndex(ram[Index(I(last.at.n + 1), ram_size).i]).i]
CmpB == last.regs[RegIndex(ram[Index(I(last.at.n + 2), ram_size).i]).i]

\* the relation of a and b conditional jump m stands for
Relation(m, a, b) ==
    CASE m = "JEQ" -> a = b
      [] m = "JNE" -> a # b
      [] m = "JGT" -> a > b
      [] m = "JLT" -> a < b
      [] m = "JLE" -> a <= b
      [] m = "JGE" -> a >= b

\* C19: a conditional jump goes to its target exactly when its flag
\* condition holds (JEQ: E = 1, JNE: E = 0, JGT: G = 1, JLT: L = 1, JLE: E = 1
\* or L = 1, JGE: E = 1 or G = 1) and to the next instruction otherwise;
\* run directly after CMP on integers a, b the condition holds exactly when
\* a = b, a # b, a > b, a < b, a <= b, a >= b
C19_Branch ==
    [][\A m \in Jumps \ {"JMP"} :
        AboutToJump(m) =>
            LET target == I(registers[OperandA.i].n - 1)
                next == I(program_counter.n + 2)
            IN /\ program_counter' \in {target, next}
               /\ target # next => (program_counter' = target <=> FlagCond(m))
               /\ (/\ last.op = "CMP" /\ last.exc = ""
                   /\ IsInt(CmpA) /\ IsInt(CmpB))
                      => (FlagCond(m) <=> Relation(m, CmpA.n, CmpB.n))]_vars

\* JLE has jumped to SubAt directly after CMP of equal values
C19_Witness ==
    /\ After("JLE")
    /\ prev.op = "CMP" /\ prev.fl # fl /\ fl.E = 1
    /\ program_counter = I(SubAt - 1)

\* the instructions that are no control transfer, and the bytes each is
\* long: the opcode and its operands
Sequential ==
    {"NOP", "PUSH", "POP", "PRN", "PRA", "INT", "INC", "DEC", "NOT", "LDI", "LD",
     "ST", "ADD", "SUB", "MUL", "DIV", "MOD", "CMP", "AND", "OR", "XOR", "SHL", "SHR"}

Length(m) ==
    IF m = "NOP" THEN 1
    ELSE IF m \in {"PUSH", "POP", "PRN", "PRA", "INT", "INC", "DEC", "NOT"} THEN 2
    ELSE 3

\* C20: an instruction that is no control transfer, its opcode and operand
\* bytes fetched, leaves the instruction pointer advanced by its length:
\* 1 for NOP, 2 for PUSH, POP, PRN, PRA, INT, INC, DEC, NOT, 3 for LDI, LD,
\* ST, CMP and the two-register ALU operations; the next fetch reads the
\* byte after the last operand
C20_Advance ==
    [][\A m \in Sequential :
        (/\ loc = "execute"
         /\ Decode(Self) = m
         /\ Length(m) >= 2 => Fetch2.exc = ""
         /\ Length(m) >= 3 => Fetch3.exc = "")
        => program_counter' = I(program_counter.n + Length(m))]_vars

\* SHR R0,R1 at address 6 has returned
C20_Witness ==
    /\ After("SHR")
    /\ last.at = I(6)
    /\ program_counter = I(8)
    /\ registers[0] = I(3)

\* the operand bytes of handler m that select a register: both bytes of the
\* two-register handlers, the first byte of LDI and of the one-operand handlers
RegisterOperands(m) == IF m = "LDI" THEN 1 ELSE OperandBytes(m)

\* C21: every register operand a handler decodes from the instruction stream
\* is an index in 0..7, whatever byte follows the opcode
C21_RegisterOperand ==
    (loc = "execute" /\ Decode(Self) # "?") =>
        /\ (RegisterOperands(Decode(Self)) >= 1 /\ Fetch2.exc = "")
               => IsInt(Fetch2.b) /\ Fetch2.b.n \in 0..(NumRegs - 1)
        /\ (RegisterOperands(Decode(Self)) = 2 /\ Fetch3.exc = "")
               => IsInt(Fetch3.b) /\ Fetch3.b.n \in 0..(NumRegs - 1)

\* C22: the flags are set by compare only: every instruction other than CMP
\* and IRET (a byte that is no instruction included), the interrupt entry
\* and every other step of load() and run() leave the flags object and its
\* E, L and G unchanged
C22_FlagsKept ==
    [][(loc = "execute" => Decode(Self) \notin {"CMP", "IRET"})
          => UNCHANGED <<flags, fl>>]_vars

\* process_interupt has just entered an interrupt raised by INT, with E set
\* by the CMP before it
C22_Witness ==
    /\ loc = "execute"
    /\ last.op = "ENTRY" /\ last.exc = ""
    /\ prev.op = "INT"
    /\ flags = DICT /\ fl.E = 1

\* process_interupt enters an interrupt and returns
EntryStep ==
    /\ loc = "process_interupt"
    /\ ~interupting /\ interupting'
    /\ exc' = ""

\* the entry has pushed exactly the instruction pointer, the flags and
\* R0..R6 (R6 with the line's bit cleared) on top of the stack in use,
\* which is otherwise as before
EntryPushesNine ==
    /\ Len(pushlog') = 9
    /\ registers'[stack_pointer] = I(registers[stack_pointer].n - 9)
    /\ stack(ram', registers'[stack_pointer]) =
          stack(ram, registers[stack_pointer])
              \o <<program_counter, flags>> \o [r \in 1..7 |-> registers'[r - 1]]
    /\ \A r \in 0..5 : registers'[r] = registers[r]

\* execute() is about to run the IRET of a handler that leaves the stack
\* pointer and the stack in use as the entry left them
BalancedIret ==
    /\ loc = "execute"
    /\ Decode(Self) = "IRET"
    /\ isr.active /\ interupting
    /\ registers[stack_pointer] = isr.sp
    /\ stack(ram, registers[stack_pointer]) = isr.after

\* IRET returns with the stack pointer and the stack in use as before the
\* entry (nine values popped) and the instruction pointer of before the entry
IretPopsNine ==
    /\ exc' = ""
    /\ registers'[stack_pointer] = I(registers[stack_pointer].n + 9)
    /\ registers'[stack_pointer] = isr.regs[stack_pointer]
    /\ stack(ram', registers'[stack_pointer]) = isr.stack
    /\ program_counter' = isr.pc

\* C23 as stated: from every state, an interrupt entry pushes exactly the
\* nine values and, after a stack-balanced handler, IRET pops exactly nine,
\* leaving the stack pointer, the stack in use and the instruction pointer
\* as before the entry
C23_StackNeutralAnySp ==
    [][/\ EntryStep => EntryPushesNine
       /\ BalancedIret => IretPopsNine]_vars

\* C23 amended: the same for an entry made with the stack pointer at or
\* below stack_start
C23_StackNeutral ==
    [][/\ (EntryStep /\ PyLt(registers[stack_pointer], I(stack_start + 1)))
            => EntryPushesNine
       /\ (BalancedIret /\ PyLt(isr.regs[stack_pointer], I(stack_start + 1)))
            => IretPopsNine]_vars

\* IRET has closed a service entered with a value on the stack, whose
\* handler pushed and popped
C23_Witness ==
    /\ Serviced
    /\ prev.op = "POP"
    /\ isr.stack # <<>>
    /\ stack(ram, registers[stack_pointer]) = isr.stack
    /\ registers[stack_pointer] = isr.regs[stack_pointer]
    /\ program_counter = isr.pc

====
